---- MODULE Spec2Model ----
(***************************************************************************)
(* tower-fallthrough-filter: a binary request dispatcher.  A predicate     *)
(* (Filter / AsyncFilter) inspects a request by reference; on `true` the   *)
(* request goes to the Primary handler (`service`), on `false` it falls    *)
(* through to the Secondary handler (`inner`).                             *)
(*                                                                         *)
(*   sync  : FilterService::call evaluates the predicate and invokes the   *)
(*           handler at once, returning Either<S::Future, I::Future>.      *)
(*   async : AsyncFilterService::call builds a SelectServiceAndCallFut,    *)
(*           which polls the predicate's future and, in the poll where it  *)
(*           resolves, invokes the selected handler clone and polls it.    *)
(*                                                                         *)
(* The handlers, the predicate's future and the handlers' futures are      *)
(* generic parameters of the code (tower::Service, Future); each poll of   *)
(* one of them is an input drawn from the outcomes its trait allows.       *)
(***************************************************************************)
EXTENDS Naturals, Sequences, FiniteSets

\* ------------------------------------------------------------------ bounds
\* The most Poll::Pending answers the predicate's future gives.
MaxPredPending == 2
\* The most Poll::Pending answers a handler's future gives.
MaxHandlerPending == 2
\* The most polls of a dispatch future after it has produced its result.
MaxLatePolls == 1
\* The most dispatches (`call`s) made on the dispatcher.
MaxDispatch == 2

\* The requests passed to `call` (the paths of tests/dynamic.rs).
\* How many more dispatchers one layer is asked to build.
MaxLayers == 2

Requests == {"/test", "/filter"}

\* ------------------------------------------------------------- Option<T>
None == <<>>
Some(x) == <<x>>
IsSome(o) == Len(o) = 1
IsNone(o) == Len(o) = 0
Unwrap(o) == o[1]

\* ---------------------------------------------------------------- Poll<T>
\* Poll::Pending and Poll::Ready(Ok(..)) / Poll::Ready(Err(..)) of a handler's
\* future: a ready value names the handler that produced it.
Pending == [kind |-> "Pending", from |-> "-"]
Ready(k, h) == [kind |-> k, from |-> h]
IsReady(p) == p.kind \in {"Ok", "Err"}

\* What one poll of a handler's future (or of a handler's poll_ready) answers.
HandlerAnswers == {"Pending", "Ok", "Err"}
\* A handler's future polled after completion: the Future contract leaves it
\* open (a panic, Pending forever, or a value again).
LateAnswers == {"Panic", "Pending", "Ok", "Err"}

\* One event of a dispatch: what happened (e), to which handler (h), with
\* which answer (k).
Ev(e, h, k) == [e |-> e, h |-> h, k |-> k]

\* ------------------------------------------------- tower::Service (handler)
\* A handler instance: its name, and whether its poll_ready has returned
\* Ready(Ok) since it was created or last called.
Handler(n) == [name |-> n, ready |-> FALSE]

\* S::clone: a new instance of the same handler, on which poll_ready has not
\* been called.
Clone(h) == [name |-> h.name, ready |-> FALSE]

\* Service::poll_ready of one handler instance answering `o`.
HandlerPollReady(h, o) == [h EXCEPT !.ready = (@ \/ o = "Ok")]

\* Service::call: the handler takes the request and returns its future.
HandlerCall(h, req) ==
    [svc |-> [h EXCEPT !.ready = FALSE],
     fut |-> [from |-> h.name, arg |-> req, pend |-> 0, done |-> FALSE,
              res |-> None, wasReady |-> h.ready],
     ev |-> <<Ev("call", h.name, "-")>>]

\* Future::poll of a handler's future answering `o`.
HandlerFutPoll(hf, o) ==
    IF o = "Panic"
    THEN [fut |-> hf, out |-> Pending, panic |-> TRUE,
          ev |-> <<Ev("poll", hf.from, o)>>]
    ELSE IF o = "Pending"
    THEN [fut |-> [hf EXCEPT !.pend = IF hf.done THEN @ ELSE @ + 1],
          out |-> Pending, panic |-> FALSE,
          ev |-> <<Ev("poll", hf.from, o)>>]
    ELSE [fut |-> [hf EXCEPT !.done = TRUE,
                             !.res = IF hf.done THEN @
                                     ELSE Some(Ready(o, hf.from))],
          out |-> Ready(o, hf.from), panic |-> FALSE,
          ev |-> <<Ev("poll", hf.from, o)>>]

\* The answers a handler's future may give to its next poll.
HandlerFutAnswers(hf) ==
    IF hf.done THEN LateAnswers
    ELSE {o \in HandlerAnswers : o = "Pending" => hf.pend < MaxHandlerPending}

\* Either<A::Future, B::Future>::poll: polls the variant it holds.
EitherPoll(e, o) ==
    LET r == HandlerFutPoll(e.f, o)
    IN  [fut |-> [e EXCEPT !.f = r.fut], out |-> r.out, panic |-> r.panic,
         ev |-> r.ev]

\* ------------------------------------------------------ predicate's future
\* AsyncFilter::matches(&req): the pending verdict on the request.
Matches(filter, req) ==
    [fut |-> [verdict |-> filter[req], pend |-> 0, done |-> FALSE],
     ev |-> <<Ev("matches", "-", "-")>>]

\* Future::poll of the predicate's future: Pending when `c` is FALSE, else
\* Ready(verdict).
ConditionPoll(cond, c) ==
    IF c THEN [fut |-> [cond EXCEPT !.done = TRUE], ready |-> TRUE,
               select |-> cond.verdict, ev |-> <<Ev("verdict", "-", "-")>>]
    ELSE [fut |-> [cond EXCEPT !.pend = @ + 1], ready |-> FALSE,
          select |-> cond.verdict, ev |-> <<Ev("cond_pending", "-", "-")>>]

\* Filter::matches(&req): the verdict on the request, at once.
FilterMatches(filter, req) ==
    [verdict |-> filter[req],
     ev |-> <<Ev("matches", "-", "-"), Ev("verdict", "-", "-")>>]

\* --------------------------------------------------- dispatcher readiness
\* poll_ready asking Primary alone (a faulty variant of FilterPollReady and of
\* AsyncPollReady).
PollReadyPrimaryOnly(self, oa, ob) ==
    LET service == HandlerPollReady(self.service, oa)
    IN  [self |-> [self EXCEPT !.service = service],
         ret |-> oa, asked |-> <<oa>>,
              who |-> <<self.service.name>>]

\* FilterService::poll_ready: `oa` and `ob` are what Primary's and
\* Secondary's poll_ready answer when asked.  `ready!` returns Pending,
\* `?` returns the failure; Secondary is asked only after Primary is ready.
FilterPollReady(self, oa, ob) ==
    LET service == HandlerPollReady(self.service, oa)
        inner == HandlerPollReady(self.inner, ob)
    IN  IF oa # "Ok"
        THEN [self |-> [self EXCEPT !.service = service],
              ret |-> oa, asked |-> <<oa>>,
              who |-> <<self.service.name>>]
        ELSE IF ob # "Ok"
        THEN [self |-> [self EXCEPT !.service = service, !.inner = inner],
              ret |-> ob, asked |-> <<oa, ob>>,
              who |-> <<self.service.name, self.inner.name>>]
        ELSE [self |-> [self EXCEPT !.service = service, !.inner = inner],
              ret |-> "Ok", asked |-> <<oa, ob>>,
              who |-> <<self.service.name, self.inner.name>>]

\* poll_ready asking Secondary before Primary (a faulty variant of
\* AsyncPollReady).
AsyncPollReadyInnerFirst(self, oa, ob) ==
    LET service == HandlerPollReady(self.service, oa)
        inner == HandlerPollReady(self.inner, ob)
    IN  IF ob # "Ok"
        THEN [self |-> [self EXCEPT !.inner = inner],
              ret |-> ob, asked |-> <<ob>>, who |-> <<self.inner.name>>]
        ELSE [self |-> [self EXCEPT !.service = service, !.inner = inner],
              ret |-> oa, asked |-> <<ob, oa>>,
              who |-> <<self.inner.name, self.service.name>>]

\* AsyncFilterService::poll_ready: the same two steps.
AsyncPollReady(self, oa, ob) ==
    LET service == HandlerPollReady(self.service, oa)
        inner == HandlerPollReady(self.inner, ob)
    IN  IF oa # "Ok"
        THEN [self |-> [self EXCEPT !.service = service],
              ret |-> oa, asked |-> <<oa>>,
              who |-> <<self.service.name>>]
        ELSE IF ob # "Ok"
        THEN [self |-> [self EXCEPT !.service = service, !.inner = inner],
              ret |-> ob, asked |-> <<oa, ob>>,
              who |-> <<self.service.name, self.inner.name>>]
        ELSE [self |-> [self EXCEPT !.service = service, !.inner = inner],
              ret |-> "Ok", asked |-> <<oa, ob>>,
              who |-> <<self.service.name, self.inner.name>>]

\* ------------------------------------------------------------ sync variant
\* FilterService::call with the test inverted (a faulty variant of FilterCall).
FilterCallInverted(self, req) ==
    LET m == FilterMatches(self.filter, req)
    IN  IF ~m.verdict
        THEN LET r == HandlerCall(self.service, req)
             IN  [self |-> [self EXCEPT !.service = r.svc],
                  fut |-> [tag |-> "Left", f |-> r.fut], ev |-> m.ev \o r.ev]
        ELSE LET r == HandlerCall(self.inner, req)
             IN  [self |-> [self EXCEPT !.inner = r.svc],
                  fut |-> [tag |-> "Right", f |-> r.fut], ev |-> m.ev \o r.ev]

\* FilterService::call exchanging the two held handlers once the call is made
\* (a faulty variant of FilterCall).
FilterCallRotates(self, req) ==
    LET m == FilterMatches(self.filter, req)
        r == HandlerCall(IF m.verdict THEN self.service ELSE self.inner, req)
    IN  [self |-> [self EXCEPT
                     !.service = IF m.verdict THEN self.inner ELSE r.svc,
                     !.inner = IF m.verdict THEN r.svc ELSE self.service],
         fut |-> [tag |-> IF m.verdict THEN "Left" ELSE "Right", f |-> r.fut],
         ev |-> m.ev \o r.ev]

\* FilterService::call handing the request to a copy of the selected handler
\* and leaving the held instances alone (a faulty variant of FilterCall).
FilterCallOnCopy(self, req) ==
    LET m == FilterMatches(self.filter, req)
    IN  IF m.verdict
        THEN LET r == HandlerCall(Clone(self.service), req)
             IN  [self |-> self,
                  fut |-> [tag |-> "Left", f |-> r.fut], ev |-> m.ev \o r.ev]
        ELSE LET r == HandlerCall(Clone(self.inner), req)
             IN  [self |-> self,
                  fut |-> [tag |-> "Right", f |-> r.fut], ev |-> m.ev \o r.ev]

\* FilterService::call.
FilterCall(self, req) ==
    LET m == FilterMatches(self.filter, req)
    IN  IF m.verdict
        THEN LET r == HandlerCall(self.service, req)
             IN  [self |-> [self EXCEPT !.service = r.svc],
                  fut |-> [tag |-> "Left", f |-> r.fut], ev |-> m.ev \o r.ev]
        ELSE LET r == HandlerCall(self.inner, req)
             IN  [self |-> [self EXCEPT !.inner = r.svc],
                  fut |-> [tag |-> "Right", f |-> r.fut], ev |-> m.ev \o r.ev]

\* ----------------------------------------------------------- async variant
\* A future built with the chosen handler already called, as the sync
\* variant does (a faulty variant of New).
NewEager(condition, value, service_a, service_b) ==
    [condition |-> condition,
     value |-> None,
     future |-> Some([tag |-> "Left",
                      f |-> HandlerCall(service_a, value).fut]),
     services |-> None]

\* SelectServiceAndCallFut::new.
New(condition, value, service_a, service_b) ==
    [condition |-> condition,
     value |-> Some(value),
     future |-> None,
     services |-> Some(<<service_a, service_b>>)]

\* AsyncFilterService::call handing the clones over in the wrong order (a
\* faulty variant of AsyncCall).
AsyncCallCrossed(self, req) ==
    LET matches == Matches(self.filter, req)
        service == Clone(self.service)
        inner == Clone(self.inner)
    IN  [self |-> self,
         fut |-> New(matches.fut, req, inner, service),
         ev |-> matches.ev]

\* AsyncFilterService::call invoking the selected handler before it returns,
\* as the sync variant does (a faulty variant of AsyncCall).
AsyncCallEager(self, req) ==
    LET matches == Matches(self.filter, req)
        service == Clone(self.service)
        inner == Clone(self.inner)
        r == HandlerCall(IF matches.fut.verdict THEN service ELSE inner, req)
    IN  [self |-> self,
         fut |-> [New(matches.fut, req, service, inner) EXCEPT
                    !.value = None, !.services = None,
                    !.future = Some([tag |-> IF matches.fut.verdict
                                             THEN "Left" ELSE "Right",
                                     f |-> r.fut])],
         ev |-> matches.ev \o r.ev]

\* AsyncFilterService::call.
AsyncCall(self, req) ==
    LET matches == Matches(self.filter, req)
        service == Clone(self.service)
        inner == Clone(self.inner)
    IN  [self |-> self,
         fut |-> New(matches.fut, req, service, inner),
         ev |-> matches.ev]

\* Polling the chosen handler's future and turning its failure into a
\* success (a faulty variant of PollFuture).
PollFutureSwallow(this, o) ==
    LET r == EitherPoll(Unwrap(this.future), o)
    IN  [fut |-> [this EXCEPT !.future = Some(r.fut)],
         out |-> IF r.out.kind = "Err" THEN Ready("Ok", r.out.from) ELSE r.out,
         panic |-> r.panic, ev |-> r.ev]

\* SelectServiceAndCallFut::poll, a handler chosen: poll its future and
\* return what it answers.
PollFuture(this, o) ==
    LET r == EitherPoll(Unwrap(this.future), o)
    IN  [fut |-> [this EXCEPT !.future = Some(r.fut)],
         out |-> r.out, panic |-> r.panic, ev |-> r.ev]

\* The choice with its branches exchanged (a faulty variant of SelectAndCall).
SelectAndCallSwapped(select, value, service_a, service_b) ==
    IF select
    THEN LET r == HandlerCall(service_b, value)
         IN  [fut |-> [tag |-> "Right", f |-> r.fut], ev |-> r.ev]
    ELSE LET r == HandlerCall(service_a, value)
         IN  [fut |-> [tag |-> "Left", f |-> r.fut], ev |-> r.ev]

\* The choice calling both handlers and keeping the chosen one's future (a
\* faulty variant of SelectAndCall).
SelectAndCallBoth(select, value, service_a, service_b) ==
    LET ra == HandlerCall(service_a, value)
        rb == HandlerCall(service_b, value)
    IN  IF select
        THEN [fut |-> [tag |-> "Left", f |-> ra.fut], ev |-> ra.ev \o rb.ev]
        ELSE [fut |-> [tag |-> "Right", f |-> rb.fut], ev |-> ra.ev \o rb.ev]

\* SelectServiceAndCallFut::poll, the choice: call service_a on `true`,
\* service_b on `false`.
SelectAndCall(select, value, service_a, service_b) ==
    IF select
    THEN LET r == HandlerCall(service_a, value)
         IN  [fut |-> [tag |-> "Left", f |-> r.fut], ev |-> r.ev]
    ELSE LET r == HandlerCall(service_b, value)
         IN  [fut |-> [tag |-> "Right", f |-> r.fut], ev |-> r.ev]

\* The predicate resolved: the chosen handler is called and its future kept,
\* but polled only by the next poll (a faulty variant of Dispatch).
DispatchThenSuspend(this, select, o) ==
    IF IsNone(this.value) \/ IsNone(this.services)
    THEN [fut |-> this, out |-> Pending, panic |-> TRUE, ev |-> <<>>]
    ELSE LET fut == SelectAndCall(select, Unwrap(this.value),
                                  Unwrap(this.services)[1],
                                  Unwrap(this.services)[2])
         IN  [fut |-> [this EXCEPT !.value = None, !.services = None,
                                   !.future = Some(fut.fut)],
              out |-> Pending, panic |-> FALSE, ev |-> fut.ev]

\* The predicate resolved: the request is copied for the handler and stays
\* in the state machine (a faulty variant of Dispatch).
DispatchKeepsValue(this, select, o) ==
    IF IsNone(this.value) \/ IsNone(this.services)
    THEN [fut |-> this, out |-> Pending, panic |-> TRUE, ev |-> <<>>]
    ELSE LET fut == SelectAndCall(select, Unwrap(this.value),
                                  Unwrap(this.services)[1],
                                  Unwrap(this.services)[2])
             r == PollFuture([this EXCEPT !.services = None,
                                          !.future = Some(fut.fut)], o)
         IN  [r EXCEPT !.ev = fut.ev \o @]

\* The predicate resolved: the handler is called and its future polled, but
\* the future is not kept (a faulty variant of Dispatch).
DispatchForgetsFuture(this, select, o) ==
    IF IsNone(this.value) \/ IsNone(this.services)
    THEN [fut |-> this, out |-> Pending, panic |-> TRUE, ev |-> <<>>]
    ELSE LET fut == SelectAndCall(select, Unwrap(this.value),
                                  Unwrap(this.services)[1],
                                  Unwrap(this.services)[2])
             r == PollFuture([this EXCEPT !.value = None, !.services = None,
                                          !.future = Some(fut.fut)], o)
         IN  [r EXCEPT !.ev = fut.ev \o @, !.fut.future = None]

\* SelectServiceAndCallFut::poll, the predicate resolved to `select`: take
\* the request and the handlers, call the chosen one, keep its future and
\* poll it.  A missing request or missing handlers fail an `expect`.
Dispatch(this, select, o) ==
    IF IsNone(this.value)
    THEN [fut |-> this, out |-> Pending, panic |-> TRUE, ev |-> <<>>]
    ELSE IF IsNone(this.services)
    THEN [fut |-> [this EXCEPT !.value = None], out |-> Pending,
          panic |-> TRUE, ev |-> <<>>]
    ELSE LET value == Unwrap(this.value)
             service_a == Unwrap(this.services)[1]
             service_b == Unwrap(this.services)[2]
             fut == SelectAndCall(select, value, service_a, service_b)
             r == PollFuture([this EXCEPT !.value = None, !.services = None,
                                          !.future = Some(fut.fut)], o)
         IN  [r EXCEPT !.ev = fut.ev \o @]

\* poll without `ready!`: the handler is chosen whether or not the
\* predicate's future has resolved (a faulty variant of SelectPoll).
SelectPollEager(this, c, o) ==
    IF IsSome(this.future)
    THEN PollFuture(this, o)
    ELSE LET cr == ConditionPoll(this.condition, c)
             r == Dispatch([this EXCEPT !.condition = cr.fut], cr.select, o)
         IN  [r EXCEPT !.ev = cr.ev \o @]

\* poll returning Pending once when the predicate resolves and choosing the
\* handler in the poll after (a faulty variant of SelectPoll).
SelectPollYields(this, c, o) ==
    IF IsSome(this.future)
    THEN PollFuture(this, o)
    ELSE LET cr == ConditionPoll(this.condition, c)
         IN  IF ~cr.ready \/ ~this.condition.done
             THEN [fut |-> [this EXCEPT !.condition = cr.fut],
                   out |-> Pending, panic |-> FALSE, ev |-> cr.ev]
             ELSE LET r == Dispatch([this EXCEPT !.condition = cr.fut],
                                    cr.select, o)
                  IN  [r EXCEPT !.ev = cr.ev \o @]

\* poll asking the predicate's future again before every poll of the chosen
\* handler's future (a faulty variant of SelectPoll).
SelectPollRechecks(this, c, o) ==
    LET cr == ConditionPoll(this.condition, c)
    IN  IF IsSome(this.future)
        THEN LET r == PollFuture(this, o)
             IN  [r EXCEPT !.ev = cr.ev \o @]
        ELSE IF ~cr.ready
        THEN [fut |-> [this EXCEPT !.condition = cr.fut],
              out |-> Pending, panic |-> FALSE, ev |-> cr.ev]
        ELSE LET r == Dispatch([this EXCEPT !.condition = cr.fut],
                               cr.select, o)
             IN  [r EXCEPT !.ev = cr.ev \o @]

\* poll returning Pending for good once the predicate has resolved, no
\* handler chosen (a faulty variant of SelectPoll).
SelectPollStuck(this, c, o) ==
    IF IsSome(this.future)
    THEN PollFuture(this, o)
    ELSE LET cr == ConditionPoll(this.condition, c)
         IN  [fut |-> [this EXCEPT !.condition = cr.fut],
              out |-> Pending, panic |-> FALSE, ev |-> cr.ev]

\* SelectServiceAndCallFut::poll: `c` is whether the predicate's future
\* resolves if polled now, `o` what the handler's future answers if polled.
SelectPoll(this, c, o) ==
    IF IsSome(this.future)
    THEN PollFuture(this, o)
    ELSE LET cr == ConditionPoll(this.condition, c)
         IN  IF ~cr.ready
             THEN [fut |-> [this EXCEPT !.condition = cr.fut],
                   out |-> Pending, panic |-> FALSE, ev |-> cr.ev]
             ELSE LET r == Dispatch([this EXCEPT !.condition = cr.fut],
                                    cr.select, o)
                  IN  [r EXCEPT !.ev = cr.ev \o @]

\* ------------------------------------------------- the boxed async block
\* The boxed AsyncFilterService::call: the async block captures the
\* predicate's future, the request and a clone of either handler; nothing of
\* it runs before its first poll.
BoxedCall(self, req) ==
    LET matches == Matches(self.filter, req)
        service == Clone(self.service)
        inner == Clone(self.inner)
    IN  [self |-> self,
         fut |-> [condition |-> matches.fut, value |-> Some(req),
                  services |-> Some(<<service, inner>>), future |-> None,
                  returned |-> FALSE],
         ev |-> matches.ev]

\* The async block suspended at, or reaching, the `.await` of the handler's
\* future `e`: it is polled and the block returns when it resolves.
BoxedAwait(this, e, o) ==
    LET r == EitherPoll(e, o)
    IN  [fut |-> [this EXCEPT !.future = Some(r.fut),
                              !.returned = IsReady(r.out) /\ ~r.panic],
         out |-> r.out, panic |-> r.panic, ev |-> r.ev]

\* The async block giving way once more when the predicate has resolved:
\* the handler is called, its future first polled by the next poll (a faulty
\* variant of BoxedPoll).
BoxedPollYields(this, c, o) ==
    IF this.returned
    THEN [fut |-> this, out |-> Pending, panic |-> TRUE, ev |-> <<>>]
    ELSE IF IsSome(this.future)
    THEN BoxedAwait(this, Unwrap(this.future), o)
    ELSE LET cr == ConditionPoll(this.condition, c)
         IN  IF ~cr.ready
             THEN [fut |-> [this EXCEPT !.condition = cr.fut],
                   out |-> Pending, panic |-> FALSE, ev |-> cr.ev]
             ELSE LET h == HandlerCall(IF cr.select
                                       THEN Unwrap(this.services)[1]
                                       ELSE Unwrap(this.services)[2],
                                       Unwrap(this.value))
                      e == [tag |-> IF cr.select THEN "Left" ELSE "Right",
                            f |-> h.fut]
                  IN  [fut |-> [this EXCEPT !.condition = cr.fut,
                                            !.value = None,
                                            !.future = Some(e)],
                       out |-> Pending, panic |-> FALSE,
                       ev |-> cr.ev \o h.ev]

\* One poll of the boxed future: resume the async block where it was
\* suspended.  Resumed after it has returned, the block panics.
BoxedPoll(this, c, o) ==
    IF this.returned
    THEN [fut |-> this, out |-> Pending, panic |-> TRUE, ev |-> <<>>]
    ELSE IF IsSome(this.future)
    THEN BoxedAwait(this, Unwrap(this.future), o)
    ELSE LET cr == ConditionPoll(this.condition, c)
         IN  IF ~cr.ready
             THEN [fut |-> [this EXCEPT !.condition = cr.fut],
                   out |-> Pending, panic |-> FALSE, ev |-> cr.ev]
             ELSE LET h == HandlerCall(IF cr.select
                                       THEN Unwrap(this.services)[1]
                                       ELSE Unwrap(this.services)[2],
                                       Unwrap(this.value))
                      e == [tag |-> IF cr.select THEN "Left" ELSE "Right",
                            f |-> h.fut]
                      r == BoxedAwait([this EXCEPT !.condition = cr.fut,
                                                   !.value = None], e, o)
                  IN  [r EXCEPT !.ev = cr.ev \o h.ev \o @]

\* ------------------------------------------------ the playground's future
\* MyFuture::new.
MyFutureNew(filter, left, right, req) ==
    [filter |-> filter, future |-> None, req |-> Some(req), left |-> left,
     right |-> right]

\* The playground's AsyncFilterService::call.
PlaygroundCall(self, req) ==
    LET matches == Matches(self.filter, req)
        service == Clone(self.service)
        fallthrough == Clone(self.inner)
    IN  [self |-> self,
         fut |-> MyFutureNew(matches.fut, service, fallthrough, req),
         ev |-> matches.ev]

\* MyFuture::poll.
MyFuturePoll(this, c, o) ==
    IF IsSome(this.future)
    THEN LET r == EitherPoll(Unwrap(this.future), o)
         IN  [fut |-> [this EXCEPT !.future = Some(r.fut)], out |-> r.out,
              panic |-> r.panic, ev |-> r.ev]
    ELSE LET cr == ConditionPoll(this.filter, c)
         IN  IF ~cr.ready
             THEN [fut |-> [this EXCEPT !.filter = cr.fut], out |-> Pending,
                   panic |-> FALSE, ev |-> cr.ev]
             ELSE IF IsNone(this.req)
             THEN [fut |-> [this EXCEPT !.filter = cr.fut], out |-> Pending,
                   panic |-> TRUE, ev |-> cr.ev]
             ELSE LET h == HandlerCall(IF cr.select THEN this.left
                                       ELSE this.right, Unwrap(this.req))
                      e == [tag |-> IF cr.select THEN "Left" ELSE "Right",
                            f |-> h.fut]
                      r == EitherPoll(e, o)
                  IN  [fut |-> [this EXCEPT
                                  !.filter = cr.fut, !.req = None,
                                  !.left = IF cr.select THEN h.svc ELSE @,
                                  !.right = IF cr.select THEN @ ELSE h.svc,
                                  !.future = Some(r.fut)],
                       out |-> r.out, panic |-> r.panic,
                       ev |-> cr.ev \o h.ev \o r.ev]

\* ------------------------------------------------------------------ state
VARIABLES
    kind,        \* "sync": a FilterService; "async": an AsyncFilterService
    dispatcher,  \* the dispatcher: [filter, service, inner]
    ready,       \* the last poll_ready of the dispatcher: what it returned
                 \* and what the handlers it asked answered
    either,      \* sync: the future the last `call` returned (an Option)
    fut,         \* async: the future the last `call` returned (an Option)
    st,          \* the last dispatch: "none", "live", "done" (its future has
                 \* produced a result), "dropped" or "panicked"
    d,           \* the last dispatch: the request passed to `call`, the
                 \* result its future produced, the polls made after that
    log,         \* the events of the last dispatch, in order
    ndisp,       \* the number of dispatches made
    hist,        \* every handler call made so far, over all dispatches:
                 \* the request dispatched and the handler called
    layer,       \* the FilterLayer / AsyncFilterLayer: [filter, service]
    built,       \* the dispatchers `layer` has built besides `dispatcher`,
                 \* each with the inner handler it was given
    pair,        \* two dispatches in flight at once on an async dispatcher:
                 \* the handler instances alive, by identity, the calls made
                 \* on them and the two dispatch futures
    twin         \* one dispatch made three times over, with the same
                 \* predicate and handler schedules: by the state machine,
                 \* by the boxed async block and by the playground's future

vars == <<kind, dispatcher, ready, either, fut, st, d, log, ndisp, hist,
          layer, built, pair, twin>>

\* FilterLayer::layer taking a copy of the inner handler too (a faulty
\* variant of Layer).
LayerCopiesInner(filter, service, inner_service) ==
    [filter |-> filter, service |-> Clone(service),
     inner |-> Clone(inner_service)]

\* FilterLayer::layer / AsyncFilterLayer::layer: a dispatcher wired to the
\* layer's predicate and Primary and to the inner Secondary.
Layer(filter, service, inner_service) ==
    [filter |-> filter, service |-> Clone(service), inner |-> inner_service]

\* AsyncFilterLayer::layer: the same wiring.
AsyncLayer(filter, service, inner_service) ==
    [filter |-> filter, service |-> Clone(service), inner |-> inner_service]

\* FilterLayer::new / AsyncFilterLayer::new.
NewLayer(filter, service) == [filter |-> filter, service |-> service]

Init ==
    /\ kind \in {"sync", "async"}
    /\ \E filter \in [Requests -> BOOLEAN] :
           layer = NewLayer(filter, Handler("Primary"))
    /\ dispatcher = IF kind = "sync"
                    THEN Layer(layer.filter, layer.service,
                               Handler("Secondary"))
                    ELSE AsyncLayer(layer.filter, layer.service,
                                    Handler("Secondary"))
    /\ built = <<>>
    /\ ready = [ret |-> "none", asked |-> <<>>, who |-> <<>>,
                fresh |-> FALSE]
    /\ either = None
    /\ fut = None
    /\ st = "none"
    /\ d = [req |-> None, out |-> None, late |-> 0, gated |-> FALSE]
    /\ log = <<>>
    /\ ndisp = 0
    /\ hist = <<>>
    /\ pair = [heap |-> <<dispatcher.service, dispatcher.inner>>,
               called |-> <<>>, futs |-> <<>>]
    /\ twin = [st |-> "none", n |-> 0, machine |-> None, boxed |-> None,
               mine |-> None, mlog |-> <<>>, blog |-> <<>>, ylog |-> <<>>]

\* The caller asks the dispatcher whether it is ready.
DoPollReady ==
    \E oa \in HandlerAnswers, ob \in HandlerAnswers :
        /\ oa # "Ok" => ob = "Pending"
        /\ LET r == IF kind = "sync"
                    THEN FilterPollReady(dispatcher, oa, ob)
                    ELSE AsyncPollReady(dispatcher, oa, ob)
           IN  /\ dispatcher' = r.self
               /\ ready' = [ret |-> r.ret, asked |-> r.asked, who |-> r.who,
                            fresh |-> TRUE]
        /\ UNCHANGED <<kind, either, fut, st, d, log, ndisp, layer, built>>

\* The output event of one poll of a dispatch future.
OutEv(out) == <<Ev("out", out.from, out.kind)>>

\* What one poll of the dispatch future leaves of the dispatch's record.
AfterPoll(r) ==
    /\ st' = IF r.panic THEN "panicked"
             ELSE IF IsReady(r.out) THEN "done" ELSE st
    /\ d' = [d EXCEPT !.out = IF IsNone(@) /\ IsReady(r.out) /\ ~r.panic
                              THEN Some(r.out) ELSE @,
                      !.late = IF st = "done" THEN @ + 1 ELSE @]
    /\ log' = log \o r.ev \o (IF r.panic THEN <<Ev("panic", "-", "-")>>
                              ELSE OutEv(r.out))

\* The handler calls among the events `ev` of a dispatch of `req`.
CallsMade(ev, req) ==
    LET made == SelectSeq(ev, LAMBDA e : e.e = "call")
    IN  [i \in 1..Len(made) |-> [req |-> req, h |-> made[i].h]]

\* The record of a dispatch just begun: it is gated when the dispatcher has
\* reported Ready(Ok) and no dispatch was made since.
Begun(req) ==
    [req |-> Some(req), out |-> None, late |-> 0,
     gated |-> (ready.fresh /\ ready.ret = "Ok")]

\* A new dispatch may begin once the last one's future is finished with.
CanCall == ndisp < MaxDispatch /\ st \in {"none", "done", "dropped"}

\* sync: the caller dispatches a request.
DoFilterCall ==
    /\ kind = "sync" /\ CanCall
    /\ \E req \in Requests :
        LET r == FilterCall(dispatcher, req)
        IN  /\ dispatcher' = r.self
            /\ either' = Some(r.fut)
            /\ d' = Begun(req)
            /\ log' = r.ev
    /\ st' = "live"
    /\ ndisp' = ndisp + 1
    /\ ready' = [ready EXCEPT !.fresh = FALSE]
    /\ UNCHANGED <<kind, fut, layer, built>>

\* sync: the caller polls the future `call` returned.
DoEitherPoll ==
    /\ kind = "sync" /\ st \in {"live", "done"}
    /\ st = "done" => d.late < MaxLatePolls
    /\ \E o \in HandlerFutAnswers(Unwrap(either).f) :
        LET r == EitherPoll(Unwrap(either), o)
        IN  /\ either' = Some(r.fut)
            /\ AfterPoll(r)
    /\ UNCHANGED <<kind, dispatcher, ready, fut, ndisp, layer, built>>

\* async: the caller dispatches a request.
DoAsyncCall ==
    /\ kind = "async" /\ CanCall
    /\ \E req \in Requests :
        LET r == AsyncCall(dispatcher, req)
        IN  /\ dispatcher' = r.self
            /\ fut' = Some(r.fut)
            /\ d' = Begun(req)
            /\ log' = r.ev
    /\ st' = "live"
    /\ ndisp' = ndisp + 1
    /\ ready' = [ready EXCEPT !.fresh = FALSE]
    /\ UNCHANGED <<kind, either, layer, built>>

\* The inputs of one poll of a SelectServiceAndCallFut: whether the
\* predicate's future resolves, what the handler's future answers.
SelectInputs(this) ==
    IF IsSome(this.future)
    THEN {<<TRUE, o>> : o \in HandlerFutAnswers(Unwrap(this.future).f)}
    ELSE {<<TRUE, o>> : o \in HandlerAnswers}
         \cup (IF this.condition.pend < MaxPredPending
               THEN {<<FALSE, "Pending">>} ELSE {})

\* async: the caller polls the future `call` returned.
DoSelectPoll ==
    /\ kind = "async" /\ st \in {"live", "done"}
    /\ st = "done" => d.late < MaxLatePolls
    /\ \E in \in SelectInputs(Unwrap(fut)) :
        LET r == SelectPoll(Unwrap(fut), in[1], in[2])
        IN  /\ fut' = Some(r.fut)
            /\ AfterPoll(r)
    /\ UNCHANGED <<kind, dispatcher, ready, either, ndisp, layer, built>>

\* async: the caller drops the future before it has produced a result.
DoDrop ==
    /\ kind = "async" /\ st = "live"
    /\ fut' = None
    /\ st' = "dropped"
    /\ log' = log \o <<Ev("drop", "-", "-")>>
    /\ UNCHANGED <<kind, dispatcher, ready, either, d, ndisp, layer, built>>

\* One dispatcher, one dispatch at a time; the calls made are not recorded.
Next ==
    \/ DoPollReady /\ UNCHANGED <<hist, pair, twin>>
    \/ DoFilterCall /\ UNCHANGED <<hist, pair, twin>>
    \/ DoEitherPoll /\ UNCHANGED <<hist, pair, twin>>
    \/ DoAsyncCall /\ UNCHANGED <<hist, pair, twin>>
    \/ DoSelectPoll /\ UNCHANGED <<hist, pair, twin>>
    \/ DoDrop /\ UNCHANGED <<hist, pair, twin>>

Spec == Init /\ [][Next]_vars

\* The handler calls among the events `ev` join the record of all calls.
Recorded(ev) == hist' = hist \o CallsMade(ev, Unwrap(d'.req))

\* The events a poll has added to the log.
Added == SubSeq(log', Len(log) + 1, Len(log'))

\* Dispatch after dispatch on one dispatcher, every handler call recorded
\* with the request it served.
SeqNext ==
    \/ DoFilterCall /\ Recorded(log') /\ UNCHANGED <<pair, twin>>
    \/ DoEitherPoll /\ Recorded(Added) /\ UNCHANGED <<pair, twin>>
    \/ DoAsyncCall /\ Recorded(log') /\ UNCHANGED <<pair, twin>>
    \/ DoSelectPoll /\ Recorded(Added) /\ UNCHANGED <<pair, twin>>
    \/ DoDrop /\ UNCHANGED <<hist, pair, twin>>

SeqSpec == Init /\ [][SeqNext]_vars

\* The most polls a dispatch future is given before it has produced a result:
\* one for every Pending of the predicate's and of the handler's future, and
\* the one in which the handler's future resolves.
MaxPolls == MaxPredPending + MaxHandlerPending + 1

\* async: the future is polled by a caller that keeps polling it until it has
\* a result, and not after.
LivePoll ==
    /\ st = "live"
    /\ Cardinality({i \in 1..Len(log) : log[i].e = "out"}) < MaxPolls
    /\ DoSelectPoll
    /\ UNCHANGED <<hist, pair, twin>>

\* Async dispatches, each polled to its result: the predicate's future
\* resolves after at most MaxPredPending polls, the handler's after at most
\* MaxHandlerPending, and the caller does not give up polling.
LiveInit == Init /\ kind = "async"

LiveNext ==
    \/ DoPollReady /\ UNCHANGED <<hist, pair, twin>>
    \/ DoAsyncCall /\ UNCHANGED <<hist, pair, twin>>
    \/ LivePoll

LiveSpec == LiveInit /\ [][LiveNext]_vars /\ WF_vars(LivePoll)

\* The inner handlers a layer may be given: either of two handlers, asked
\* for readiness before or not.
Inners ==
    {[Handler(n) EXCEPT !.ready = b] :
        n \in {"Secondary", "Fallback"}, b \in BOOLEAN}

\* The layer is asked for one more dispatcher, around `inner`; `layer` takes
\* &self, so the layer stays as it is.
DoLayer ==
    /\ Len(built) < MaxLayers
    /\ \E inner \in Inners :
        built' = Append(built,
                        [inner |-> inner, by |-> layer,
                         svc |-> IF kind = "sync"
                                 THEN Layer(layer.filter, layer.service,
                                            inner)
                                 ELSE AsyncLayer(layer.filter, layer.service,
                                                 inner)])
    /\ UNCHANGED <<kind, dispatcher, ready, either, fut, st, d, log, ndisp,
                   layer>>

\* One layer building dispatcher after dispatcher.
LayerNext == DoLayer /\ UNCHANGED <<hist, pair, twin>>

SpecLayer == Init /\ [][LayerNext]_vars

\* ------------------------------------------------ two dispatches in flight
\* S::clone handing back the instance it was asked to copy (a faulty variant
\* of CloneAt).
CloneShares(heap, id) == [heap |-> heap, id |-> id]

\* S::clone of the instance `id` of the store: a new instance with an
\* identity of its own.
CloneAt(heap, id) ==
    [heap |-> Append(heap, Clone(heap[id])), id |-> Len(heap) + 1]

\* The dispatcher over the store: instance 1 is the Primary it holds,
\* instance 2 the Secondary.
Held(heap) ==
    [filter |-> dispatcher.filter, service |-> heap[1], inner |-> heap[2]]

\* AsyncFilterService::call over the store: the future it returns owns the two
\* instances cloned for it.
AsyncCallOn(heap, req) ==
    LET service == CloneAt(heap, 1)
        inner == CloneAt(service.heap, 2)
        r == AsyncCall(Held(heap), req)
    IN  [heap |-> inner.heap,
         f |-> [fut |-> r.fut, ids |-> <<service.id, inner.id>>, req |-> req,
                ins |-> <<>>, log |-> r.ev, st |-> "live", boxed |-> FALSE]]

\* The boxed AsyncFilterService::call handing the async block the instances
\* the dispatcher holds (a faulty variant of BoxedCallOn).
BoxedCallOnHeld(heap, req) ==
    LET r == BoxedCall(Held(heap), req)
    IN  [heap |-> heap,
         f |-> [fut |-> r.fut, ids |-> <<1, 2>>, req |-> req,
                ins |-> <<>>, log |-> r.ev, st |-> "live", boxed |-> TRUE]]

\* The boxed AsyncFilterService::call over the store: the async block owns
\* the two instances cloned for it.
BoxedCallOn(heap, req) ==
    LET service == CloneAt(heap, 1)
        inner == CloneAt(service.heap, 2)
        r == BoxedCall(Held(heap), req)
    IN  [heap |-> inner.heap,
         f |-> [fut |-> r.fut, ids |-> <<service.id, inner.id>>, req |-> req,
                ins |-> <<>>, log |-> r.ev, st |-> "live", boxed |-> TRUE]]

\* Future::poll of a dispatch future over the store: the handlers the future
\* calls are its instances as they stand in the store, and the call changes
\* the instance called.
PollOn(heap, f, c, o) ==
    LET this == IF IsSome(f.fut.services)
                THEN [f.fut EXCEPT !.services = Some(<<heap[f.ids[1]],
                                                       heap[f.ids[2]]>>)]
                ELSE f.fut
        r == IF f.boxed THEN BoxedPoll(this, c, o) ELSE SelectPoll(this, c, o)
        made == CallsMade(r.ev, f.req)
        id == IF IsSome(r.fut.future) /\ Unwrap(r.fut.future).tag = "Left"
              THEN f.ids[1] ELSE f.ids[2]
    IN  [heap |-> IF made = <<>> THEN heap
                  ELSE [heap EXCEPT ![id] = HandlerCall(@, f.req).svc],
         called |-> [k \in 1..Len(made) |-> id],
         f |-> [f EXCEPT !.fut = r.fut,
                         !.ins = Append(@, <<c, o>>),
                         !.log = @ \o r.ev \o OutEv(r.out),
                         !.st = IF IsReady(r.out) THEN "done" ELSE @]]

\* What the two dispatches in flight leave alone.
Single == <<kind, dispatcher, ready, either, fut, st, d, log, ndisp, hist,
            layer, built>>

\* The caller dispatches a request not yet in flight.
PairCall ==
    /\ kind = "async" /\ Len(pair.futs) < 2
    /\ \E req \in Requests :
        /\ \A i \in 1..Len(pair.futs) : pair.futs[i].req # req
        /\ \E boxed \in BOOLEAN :
            /\ \A i \in 1..Len(pair.futs) : pair.futs[i].boxed = boxed
            /\ LET r == IF boxed THEN BoxedCallOn(pair.heap, req)
                        ELSE AsyncCallOn(pair.heap, req)
               IN  pair' = [pair EXCEPT !.heap = r.heap,
                                        !.futs = Append(@, r.f)]
    /\ UNCHANGED <<Single, twin>>

\* One of the futures in flight is polled.
PairPoll ==
    /\ \E i \in 1..Len(pair.futs) :
        /\ pair.futs[i].st = "live"
        /\ \E in \in SelectInputs(pair.futs[i].fut) :
            LET r == PollOn(pair.heap, pair.futs[i], in[1], in[2])
            IN  pair' = [pair EXCEPT
                           !.heap = r.heap,
                           !.called = @ \o [k \in 1..Len(r.called) |->
                                              [by |-> i, id |-> r.called[k]]],
                           !.futs[i] = r.f]
    /\ UNCHANGED <<Single, twin>>

\* A future in flight is dropped before it has produced a result: what it
\* owns goes with it.
PairDrop ==
    /\ \E i \in 1..Len(pair.futs) :
        /\ pair.futs[i].st = "live"
        /\ pair' = [pair EXCEPT
                      !.futs[i].st = "dropped",
                      !.futs[i].log = Append(@, Ev("drop", "-", "-"))]
    /\ UNCHANGED <<Single, twin>>

\* The caller asks the dispatcher whether it is ready, dispatches in flight
\* or not.
PairPollReady ==
    /\ kind = "async"
    /\ \E oa \in HandlerAnswers, ob \in HandlerAnswers :
        /\ oa # "Ok" => ob = "Pending"
        /\ LET r == AsyncPollReady(Held(pair.heap), oa, ob)
           IN  pair' = [pair EXCEPT !.heap[1] = r.self.service,
                                    !.heap[2] = r.self.inner]
    /\ UNCHANGED <<Single, twin>>

\* One async dispatcher with two dispatches in flight, polled in any order.
PairNext ==
    \/ PairCall
    \/ PairPoll
    \/ PairDrop
    \/ PairPollReady

PairSpec == Init /\ [][PairNext]_vars

\* The dispatch future of `req` after the polls `ins`, no other future about:
\* the future owns copies of the handlers and nothing else reaches them.
RECURSIVE SoloRun(_, _, _)
SoloRun(boxed, f, ins) ==
    IF ins = <<>> THEN f
    ELSE SoloRun(boxed,
                 IF boxed THEN BoxedPoll(f, Head(ins)[1], Head(ins)[2]).fut
                 ELSE SelectPoll(f, Head(ins)[1], Head(ins)[2]).fut,
                 Tail(ins))

Solo(boxed, req, ins) ==
    SoloRun(boxed,
            IF boxed THEN BoxedCall(dispatcher, req).fut
            ELSE AsyncCall(dispatcher, req).fut,
            ins)

\* ------------------------------------------- one dispatch, three futures
\* What a poll adds to the record of a future: its steps and what it returns.
Polled(r) ==
    r.ev \o (IF r.panic THEN <<Ev("panic", "-", "-")>> ELSE OutEv(r.out))

\* The caller dispatches the same request on the state machine's dispatcher,
\* on the boxed one and on the playground's.
TwinCall ==
    /\ kind = "async" /\ twin.st \in {"none", "done"} /\ twin.n < MaxDispatch
    /\ \E req \in Requests :
        LET m == AsyncCall(dispatcher, req)
            b == BoxedCall(dispatcher, req)
            y == PlaygroundCall(dispatcher, req)
        IN  twin' = [st |-> "live", n |-> twin.n + 1,
                     machine |-> Some(m.fut), boxed |-> Some(b.fut),
                     mine |-> Some(y.fut),
                     mlog |-> m.ev, blog |-> b.ev, ylog |-> y.ev]
    /\ UNCHANGED <<Single, pair>>

\* The three futures are polled, the predicate's and the handler's futures
\* answering each the same; polling stops when one has produced a result.
TwinPoll ==
    /\ twin.st = "live"
    /\ \E in \in SelectInputs(Unwrap(twin.machine)) :
        LET m == SelectPoll(Unwrap(twin.machine), in[1], in[2])
            b == BoxedPoll(Unwrap(twin.boxed), in[1], in[2])
            y == MyFuturePoll(Unwrap(twin.mine), in[1], in[2])
        IN  twin' = [twin EXCEPT
                       !.st = IF \E r \in {m, b, y} : r.panic \/ IsReady(r.out)
                              THEN "done" ELSE @,
                       !.machine = Some(m.fut), !.boxed = Some(b.fut),
                       !.mine = Some(y.fut),
                       !.mlog = @ \o Polled(m), !.blog = @ \o Polled(b),
                       !.ylog = @ \o Polled(y)]
    /\ UNCHANGED <<Single, pair>>

\* The same dispatch made by the three implementations side by side.
TwinNext ==
    \/ TwinCall
    \/ TwinPoll

TwinSpec == Init /\ [][TwinNext]_vars

\* ------------------------------------------------------ reading a dispatch
\* The positions of the log holding an event of kind `e`.
At(e) == {i \in 1..Len(log) : log[i].e = e}

\* How often handler `h` has been called in this dispatch.
Calls(h) == Cardinality({i \in At("call") : log[i].h = h})

\* The verdict of the predicate on the dispatched request, and the handler
\* it selects.
Verdict == dispatcher.filter[Unwrap(d.req)]
Selected == IF Verdict THEN "Primary" ELSE "Secondary"
NotSelected == IF Verdict THEN "Secondary" ELSE "Primary"

\* The future the dispatch holds for the handler it called, as an Option.
HeldFuture ==
    IF kind = "sync" THEN either
    ELSE IF IsSome(fut) THEN Unwrap(fut).future ELSE None

\* The polls of the dispatch future made before position i of the log.
PollsBefore(i) == Cardinality({j \in At("out") \cup At("panic") : j < i})

\* ------------------------------------------------------------------ claims

\* C1: async variant: in every reachable state of one dispatch the handlers
\* have been called at most once in total, and once the dispatch future has
\* produced a result exactly one call was made: on Primary when the verdict
\* is true, on Secondary when it is false; the other has no call.
C1_AsyncExactlyOneCall ==
    (kind = "async" /\ st # "none") =>
        /\ Calls("Primary") + Calls("Secondary") <= 1
        /\ IsSome(d.out) =>
              /\ Calls(Selected) = 1
              /\ Calls(NotSelected) = 0

\* C1 happens: an async dispatch with verdict false, polled past a pending
\* predicate to its result and once more after it, called Secondary once.
C1_Witness ==
    /\ kind = "async" /\ IsSome(d.out) /\ ~Verdict
    /\ At("cond_pending") # {} /\ d.late = 1
    /\ Calls("Secondary") = 1

\* C2: sync variant: a dispatch call evaluates the predicate exactly once and
\* calls exactly one handler exactly once within the call itself, before any
\* poll of the returned future: Primary on true, Secondary on false; the
\* returned future is Left for Primary and Right for Secondary.
C2_SyncCallsWithinCall ==
    (kind = "sync" /\ st # "none") =>
        /\ Len(log) >= 3
        /\ SubSeq(log, 1, 3) = <<Ev("matches", "-", "-"),
                                  Ev("verdict", "-", "-"),
                                  Ev("call", Selected, "-")>>
        /\ At("matches") = {1}
        /\ At("call") = {3}
        /\ Unwrap(either).tag = (IF Verdict THEN "Left" ELSE "Right")
        /\ Unwrap(either).f.from = Selected

\* C2 happens: a sync dispatch with verdict true whose future has not been
\* polled yet.
C2_Witness ==
    /\ kind = "sync" /\ st = "live" /\ Verdict
    /\ Len(log) = 3 /\ Calls("Primary") = 1

\* C3: both variants: the result a dispatch produces is the result of the
\* Primary handler's future when the verdict is true and of the Secondary
\* handler's future when it is false, whether that result is a response or
\* a failure.
C3_ResultOfSelectedHandler ==
    IsSome(d.out) =>
        /\ Unwrap(d.out).from = Selected
        /\ IsSome(HeldFuture)
        /\ Unwrap(HeldFuture).f.from = Selected
        /\ Unwrap(HeldFuture).f.res = d.out

\* C3 happens: a sync dispatch with verdict false has produced Secondary's
\* failure.
C3_Witness ==
    /\ kind = "sync" /\ d.out = Some(Ready("Err", "Secondary"))
    /\ ~Verdict

\* C4: the dispatcher's readiness query returns Ready(Ok) only if in that
\* same query Primary and Secondary both answered Ready(Ok); when one of
\* those asked did not, the dispatcher does not report Ready(Ok).
C4_ReadyOnlyIfBothReady ==
    ready.ret # "none" =>
        (ready.ret = "Ok" <=> ready.asked = <<"Ok", "Ok">>)

\* C4 happens: a query in which Primary was ready and Secondary was not.
C4_Witness == ready.asked = <<"Ok", "Pending">> /\ ready.ret = "Pending"

\* C5: async variant: when the predicate's future resolves on its N-th poll,
\* no handler is called during the first N-1 polls of the dispatch future,
\* each of which returns Pending, and the selected handler is called during
\* the N-th poll.
C5_CallInNthPoll ==
    (kind = "async" /\ IsSome(fut)) =>
        LET cond == Unwrap(fut).condition
        IN  /\ ~cond.done =>
                /\ At("call") = {}
                /\ Cardinality(At("out")) = cond.pend
                /\ \A i \in At("out") : log[i].k = "Pending"
            /\ cond.done => Calls(Selected) = 1
            /\ \A i \in At("call") :
                /\ log[i].h = Selected
                /\ PollsBefore(i) = cond.pend
                /\ \A j \in At("out") : j < i => log[j].k = "Pending"

\* C5 happens: the predicate resolved on its third poll and Primary was
\* called in the third poll of the dispatch future.
C5_Witness ==
    /\ kind = "async" /\ IsSome(fut) /\ Verdict
    /\ Unwrap(fut).condition.pend = 2 /\ Unwrap(fut).condition.done
    /\ \E i \in At("call") : PollsBefore(i) = 2

\* The outputs of the dispatch future up to its first result.
FirstResult == CHOOSE i \in At("out") :
                   /\ log[i].k # "Pending"
                   /\ \A j \in At("out") : j < i => log[j].k = "Pending"

\* C6: async variant: when the predicate's future reports Pending exactly k
\* times and the selected handler's future resolves on its first poll, the
\* dispatch future reports Pending exactly k times and then returns the
\* selected handler's result.
C6_PendingExactlyKTimes ==
    (kind = "async" /\ IsSome(d.out) /\ IsSome(fut)) =>
        LET this == Unwrap(fut)
        IN  Unwrap(this.future).f.pend = 0 =>
                /\ Cardinality({j \in At("out") : j < FirstResult})
                       = this.condition.pend
                /\ log[FirstResult].h = Selected
                /\ Some(Ready(log[FirstResult].k, log[FirstResult].h)) = d.out

\* C6 happens (scenario D): the predicate reported Pending twice and then
\* true; the dispatch future reported Pending twice, then Primary's result.
C6_Witness ==
    /\ kind = "async" /\ IsSome(d.out) /\ IsSome(fut) /\ Verdict
    /\ Unwrap(fut).condition.pend = 2
    /\ Unwrap(Unwrap(fut).future).f.pend = 0
    /\ Cardinality(At("out")) = 3 /\ d.late = 0
    /\ log[Len(log)] = Ev("out", "Primary", "Ok")

\* C7: both variants: what the called handler's future yields, a response or
\* a failure, is what the dispatch future yields in that poll, unchanged,
\* and the dispatch future yields no result that the called handler's
\* future did not yield in that same poll.
C7_HandlerResultUnchanged ==
    /\ \A i \in At("poll") :
           log[i].k \in {"Ok", "Err"} =>
               /\ i < Len(log)
               /\ log[i + 1] = Ev("out", log[i].h, log[i].k)
    /\ \A i \in At("out") :
           log[i].k # "Pending" =>
               /\ i > 1
               /\ log[i - 1] = Ev("poll", log[i].h, log[i].k)
               /\ log[i].h = Unwrap(HeldFuture).f.from

\* C7 happens: an async dispatch whose handler's future failed, and the
\* dispatch future yielded that failure.
C7_Witness ==
    /\ kind = "async" /\ d.out = Some(Ready("Err", "Primary"))
    /\ Ev("poll", "Primary", "Err") \in {log[i] : i \in At("poll")}

\* C8: both variants: the request the called handler receives is the one
\* passed to the dispatcher's `call`; the async state machine holds exactly
\* that request until it hands it over, and holds none afterwards.
C8_RequestConserved ==
    /\ IsSome(HeldFuture) => Unwrap(HeldFuture).f.arg = Unwrap(d.req)
    /\ (kind = "async" /\ IsSome(fut)) =>
           Unwrap(fut).value = (IF IsSome(Unwrap(fut).future) THEN None
                                ELSE d.req)

\* C8 happens: an async dispatch with verdict false, after a pending
\* predicate poll, handed the request "/filter" to Secondary.
C8_Witness ==
    /\ kind = "async" /\ IsSome(HeldFuture)
    /\ ~Verdict /\ At("cond_pending") # {}
    /\ Unwrap(HeldFuture).f.arg = "/filter"
    /\ Unwrap(HeldFuture).f.from = "Secondary"

\* C9: both variants: within one dispatch the predicate yields its verdict
\* before a handler is called, and the handler that was not selected is
\* never called and no future of it is ever created or polled.
C9_VerdictBeforeCall ==
    st # "none" =>
        /\ \A i \in At("call") : \E j \in At("verdict") : j < i
        /\ \A i \in At("call") \cup At("poll") : log[i].h = Selected
        /\ IsSome(HeldFuture) => Unwrap(HeldFuture).f.from = Selected

\* C9 happens: an async dispatch with verdict true called and polled
\* Primary after two pending polls of the predicate.
C9_Witness ==
    /\ kind = "async" /\ st = "live" /\ Verdict
    /\ Cardinality(At("cond_pending")) = 2
    /\ Calls("Primary") = 1 /\ Cardinality(At("poll")) = 2

\* C10: async variant: a dispatch future dropped while the predicate's
\* future has not resolved leaves both handlers uncalled, whatever the
\* dispatcher is asked afterwards.
C10_NoCallAfterEarlyDrop ==
    (kind = "async" /\ st = "dropped" /\ At("verdict") = {}) =>
        /\ At("call") = {}
        /\ At("poll") = {}
        /\ fut = None

\* C10 happens: a dispatch future dropped after a pending poll of the
\* predicate, and the dispatcher asked for readiness after that.
C10_Witness ==
    /\ kind = "async" /\ st = "dropped" /\ At("verdict") = {}
    /\ At("cond_pending") # {}
    /\ ready.ret = "Ok" /\ ndisp = 1

\* The positions of the log where the dispatch future delivered a result.
Deliveries == {i \in At("out") : log[i].k # "Pending"}

\* C11: async variant: once the dispatch future has produced a result, no
\* further poll of it delivers a result again, whatever the selected
\* handler's future does when it is polled after completion.
C11_NoRepeatedDelivery ==
    kind = "async" => Cardinality(Deliveries) <= 1

\* ------------------------------------------------------------------- C12
\* What a sync dispatch of the request now recorded did to the held
\* instances: the selected one was itself called, the other one and the
\* predicate were left alone.
CalledHeld(before, after, req, held) ==
    LET sel == before.filter[req]
        old == IF sel THEN before.service ELSE before.inner
        new == IF sel THEN after.service ELSE after.inner
    IN  /\ after.filter = before.filter
        /\ (IF sel THEN after.inner = before.inner
                   ELSE after.service = before.service)
        /\ new = HandlerCall(old, req).svc
        /\ held.f = HandlerCall(old, req).fut

C13_CalledInstanceWasReady ==
    (d.gated /\ IsSome(HeldFuture)) => Unwrap(HeldFuture).f.wasReady

\* ------------------------------------------------------------------- C14
\* C14: the dispatcher keeps no per-request state: whatever dispatches were
\* made before on the same dispatcher, every handler call goes to the handler
\* the predicate's verdict for that call's own request selects.
C14_ChoiceDependsOnVerdictOnly ==
    \A i \in 1..Len(hist) :
        hist[i].h = IF dispatcher.filter[hist[i].req]
                    THEN "Primary" ELSE "Secondary"

C14_Witness ==
    /\ Len(hist) = 2 /\ st = "done"
    /\ hist[1] = [req |-> "/filter", h |-> "Primary"]
    /\ hist[2] = [req |-> "/test", h |-> "Secondary"]
    /\ d.out = Some(Ready("Ok", "Secondary"))

\* ------------------------------------------------------------------- C15
\* C15: `layer(inner)` yields a dispatcher whose predicate is the layer's
\* predicate, whose Primary is a copy of the layer's service and whose
\* Secondary is exactly `inner`; the layer is as it was before the call, so
\* all dispatchers it builds are wired to the same predicate and Primary.
C15_LayerWiring ==
    \A i \in 1..Len(built) :
        /\ built[i].svc.filter = layer.filter
        /\ built[i].svc.service = Clone(layer.service)
        /\ built[i].svc.inner = built[i].inner
        /\ built[i].by = layer
        /\ built[i].svc.filter = dispatcher.filter
        /\ built[i].svc.service = dispatcher.service

C15_Witness ==
    /\ Len(built) = 2
    /\ built[1].inner = [name |-> "Fallback", ready |-> TRUE]
    /\ built[2].inner = [name |-> "Secondary", ready |-> FALSE]
    /\ built[1].svc.inner.ready
    /\ built[2].svc.service.name = "Primary"

\* ------------------------------------------------------------------- C16
\* C16: async variant: in the poll in which the predicate's future resolves
\* the selected handler is called and its future polled, before that poll
\* returns: the dispatch future never returns between the verdict and the
\* first poll of the handler's future.
C16_CallAndPollInResolvingPoll ==
    kind = "async" =>
        \A i \in At("verdict") :
            /\ i + 3 <= Len(log)
            /\ log[i + 1] = Ev("call", Selected, "-")
            /\ log[i + 2].e = "poll" /\ log[i + 2].h = Selected
            /\ log[i + 3].e = "out"
            /\ \A j \in At("out") \cup At("panic") :
                   j > i => \E p \in At("poll") : i < p /\ p < j

C16_Witness ==
    /\ kind = "async" /\ st = "live" /\ IsSome(fut)
    /\ Unwrap(fut).condition.pend = 1
    /\ \E i \in At("verdict") :
        /\ PollsBefore(i) = 1
        /\ Len(log) = i + 3
        /\ log[i + 2] = Ev("poll", "Secondary", "Pending")

\* ------------------------------------------------------------------- C17
\* C17: async variant: `call` (and `new` within it) invokes neither handler:
\* a dispatch future that has not been polled, whether still held or already
\* dropped, has called and polled no handler and still owns the request and
\* both handler copies.
C17_CallInvokesNoHandler ==
    (kind = "async" /\ st \in {"live", "dropped"}
                    /\ At("out") \cup At("panic") = {}) =>
        /\ At("call") = {} /\ At("poll") = {}
        /\ IsSome(fut) =>
            /\ Unwrap(fut).value = d.req
            /\ IsSome(Unwrap(fut).services)
            /\ IsNone(Unwrap(fut).future)

C17_Witness ==
    /\ kind = "async" /\ st = "dropped" /\ ndisp = 2
    /\ log = <<Ev("matches", "-", "-"), Ev("drop", "-", "-")>>

\* ------------------------------------------------------------------- C18
\* C18: async variant: once a handler has been called, every later poll of
\* the dispatch future polls that handler's future and nothing else: the
\* predicate's future is not polled again, no handler is called again, and
\* the future held stays that of the handler called.
C18_SelectionIsFinal ==
    kind = "async" =>
        \A i \in At("call") :
            /\ \A j \in (i + 1)..Len(log) :
                /\ log[j].e \notin {"matches", "cond_pending", "verdict",
                                    "call"}
                /\ log[j].e = "poll" => log[j].h = log[i].h
                /\ log[j].e \in {"out", "panic"} => log[j - 1].e = "poll"
            /\ IsSome(fut) =>
                /\ IsSome(Unwrap(fut).future)
                /\ Unwrap(Unwrap(fut).future).f.from = log[i].h

C18_Witness ==
    /\ kind = "async" /\ st = "done" /\ d.late = 1
    /\ \E i \in At("call") :
        /\ log[i].h = "Primary"
        /\ Cardinality({j \in At("poll") : j > i}) = 4

\* ------------------------------------------------------------------- C19
\* C19: state of a SelectServiceAndCallFut between polls: `value` is Some
\* exactly when `services` is Some, exactly when `future` is None; and no
\* poll fails one of the `expect`s: a poll panics only when the handler's
\* future, polled after completion, does.
C19_StateInvariant ==
    kind = "async" =>
        /\ IsSome(fut) =>
            /\ IsSome(Unwrap(fut).value) <=> IsSome(Unwrap(fut).services)
            /\ IsSome(Unwrap(fut).value) <=> IsNone(Unwrap(fut).future)
        /\ \A i \in At("panic") :
               i > 1 /\ log[i - 1].e = "poll" /\ log[i - 1].k = "Panic"

C19_Witness ==
    /\ kind = "async" /\ st = "done" /\ d.late = 1 /\ IsSome(fut)
    /\ IsNone(Unwrap(fut).value) /\ IsNone(Unwrap(fut).services)
    /\ IsSome(Unwrap(fut).future)
    /\ Unwrap(fut).condition.pend = 2

\* ------------------------------------------------------------------- C20
\* C20: async variant, liveness: a dispatch future that keeps being polled,
\* its predicate's future and its handler's future resolving after finitely
\* many polls, eventually produces a result.
C20_EventuallyResult ==
    (kind = "async" /\ st = "live") ~> (st = "done" /\ IsSome(d.out))

C20_Witness ==
    /\ kind = "async" /\ st = "done" /\ ndisp = 2
    /\ Unwrap(fut).condition.pend = MaxPredPending
    /\ Unwrap(Unwrap(fut).future).f.pend = MaxHandlerPending
    /\ Cardinality(At("out")) = MaxPolls
    /\ d.out = Some(Ready("Err", "Secondary"))

\* ------------------------------------------------------------------- C21
\* The calls future i of the pair has made.
CallsBy(i) == {k \in 1..Len(pair.called) : pair.called[k].by = i}

\* C21: two dispatch futures of one async dispatcher, for different requests,
\* share no mutable state: however their polls interleave, each calls only
\* the handler its own verdict selects, once, on the copy made for it, which
\* is neither an instance the dispatcher holds nor one of the other future's,
\* and each is in the state it would be in had it been polled alone.
C21_NoSharedState ==
    \A i \in 1..Len(pair.futs) :
        LET f == pair.futs[i]
            own == IF dispatcher.filter[f.req] THEN f.ids[1] ELSE f.ids[2]
        IN  /\ f.fut = Solo(f.boxed, f.req, f.ins)
            /\ Cardinality(CallsBy(i)) <= 1
            /\ f.st = "done" => Cardinality(CallsBy(i)) = 1
            /\ \A k \in CallsBy(i) :
                /\ pair.called[k].id = own
                /\ pair.heap[own].name = IF dispatcher.filter[f.req]
                                         THEN "Primary" ELSE "Secondary"
                /\ own \notin {1, 2}
                /\ \A j \in 1..Len(pair.futs) :
                       j # i => /\ own # pair.futs[j].ids[1]
                                /\ own # pair.futs[j].ids[2]

C21_Witness ==
    /\ Len(pair.futs) = 2
    /\ pair.futs[1].st = "done" /\ pair.futs[2].st = "done"
    /\ dispatcher.filter["/test"] /\ dispatcher.filter["/filter"]
    /\ pair.called = <<[by |-> 2, id |-> 5], [by |-> 1, id |-> 3]>>
    /\ pair.heap[1].ready
    /\ Len(pair.futs[1].ins) = 3 /\ Len(pair.futs[2].ins) = 2
    /\ Unwrap(pair.futs[1].fut.future).f.res = Some(Ready("Ok", "Primary"))
    /\ Unwrap(pair.futs[2].fut.future).f.res = Some(Ready("Err", "Primary"))

\* ------------------------------------------------------------------- C22
\* C22: async variant, state machine and boxed alike: `call` takes copies of
\* Primary and Secondary when it is made, and neither `call` nor a later poll
\* or drop of the future calls or changes the instances the dispatcher
\* holds; the handler that runs is one of the copies taken by `call`, as it
\* was taken.
C22_HeldInstancesUntouched ==
    [][(PairCall \/ PairPoll \/ PairDrop) =>
         /\ pair'.heap[1] = pair.heap[1]
         /\ pair'.heap[2] = pair.heap[2]
         /\ \A i \in (Len(pair.futs) + 1)..Len(pair'.futs) :
             LET f == pair'.futs[i]
             IN  /\ f.ids[1] > Len(pair.heap) /\ f.ids[2] > Len(pair.heap)
                 /\ f.ids[1] # f.ids[2]
                 /\ pair'.heap[f.ids[1]] = Clone(pair.heap[1])
                 /\ pair'.heap[f.ids[2]] = Clone(pair.heap[2])
                 /\ f.fut.services = Some(<<Clone(pair.heap[1]),
                                            Clone(pair.heap[2])>>)
                 /\ Len(pair'.called) = Len(pair.called)
         /\ \A k \in (Len(pair.called) + 1)..Len(pair'.called) :
             LET c == pair'.called[k]
                 f == pair.futs[c.by]
             IN  /\ c.id \in {f.ids[1], f.ids[2]}
                 /\ c.id \notin {1, 2}
                 /\ Some(<<pair.heap[f.ids[1]], pair.heap[f.ids[2]]>>)
                        = f.fut.services]_vars

C22_Witness ==
    /\ Len(pair.futs) = 2
    /\ pair.futs[1].boxed /\ pair.futs[2].boxed
    /\ pair.futs[1].st = "dropped" /\ pair.futs[2].st = "done"
    /\ pair.heap[1].ready /\ pair.heap[2].ready
    /\ pair.called = <<[by |-> 2, id |-> 6]>>
    /\ ~Unwrap(pair.futs[2].fut.future).f.wasReady

\* ------------------------------------------------------------------- C23
\* C23: sync and async variants: poll_ready asks Primary first and asks
\* Secondary only when Primary has answered Ready(Ok) in that same query; a
\* Pending or a failure of Primary is returned as it is without Secondary
\* being asked, and what Secondary answers, a failure included, is returned
\* as it is.
C23_PrimaryFirstThenSecondary ==
    ready.ret # "none" =>
        /\ Len(ready.who) = Len(ready.asked)
        /\ ready.who = SubSeq(<<"Primary", "Secondary">>, 1, Len(ready.who))
        /\ Len(ready.who) >= 1
        /\ ready.asked[1] # "Ok" =>
               Len(ready.asked) = 1 /\ ready.ret = ready.asked[1]
        /\ ready.asked[1] = "Ok" =>
               Len(ready.asked) = 2 /\ ready.ret = ready.asked[2]

C23_Witness ==
    /\ kind = "async" /\ ready.ret = "Err"
    /\ ready.asked = <<"Ok", "Err">>
    /\ ready.who = <<"Primary", "Secondary">>
    /\ dispatcher.service.ready /\ ~dispatcher.inner.ready

\* ------------------------------------------------------------------- C24
\* C24: up to completion the boxed async block and the SelectServiceAndCallFut
\* state machine (and the playground's MyFuture) cannot be told apart: with
\* the same predicate schedule, verdict and handler schedule they make the
\* same predicate polls, handler call and handler polls and return the same
\* Pending / result, poll by poll, and hold the same handler future.
C24_BoxedEquivalentToMachine ==
    twin.st # "none" =>
        /\ twin.blog = twin.mlog
        /\ twin.ylog = twin.mlog
        /\ Unwrap(twin.boxed).future = Unwrap(twin.machine).future
        /\ Unwrap(twin.mine).future = Unwrap(twin.machine).future
        /\ Unwrap(twin.boxed).condition = Unwrap(twin.machine).condition
        /\ Unwrap(twin.mine).filter = Unwrap(twin.machine).condition
        /\ Unwrap(twin.boxed).returned <=> twin.st = "done"

C24_Witness ==
    /\ twin.st = "done" /\ twin.n = 2
    /\ Unwrap(twin.boxed).returned
    /\ Unwrap(twin.machine).condition.pend = MaxPredPending
    /\ Unwrap(Unwrap(twin.boxed).future).f.pend = MaxHandlerPending
    /\ twin.blog[Len(twin.blog)] = Ev("out", "Secondary", "Err")
    /\ Len(twin.blog) = 1 + 2 * MaxPredPending + 2 * MaxHandlerPending + 4

====
